---- MODULE Spec2Model ----
(***************************************************************************)
(* Model of ffmpeg-batch.py: main() -> Preset -> Targets (planning) ->     *)
(* ask_for_confirmation -> doConvert (sequential batch execution), with    *)
(* the SIGINT handler.  The external tools (ffprobe, ffmpeg), the file     *)
(* system and the user are the environment: their answers are chosen       *)
(* nondeterministically.                                                   *)
(***************************************************************************)
EXTENDS Integers, Sequences, FiniteSets

(* ------------------------------ bounds --------------------------------- *)

\* longest input list (-i takes one or more arguments)
MaxInputs == 2

\* longest media duration, in seconds, ffprobe reports
MaxDur == 2

(* --------------------------- paths and files --------------------------- *)

\* A path is a sequence of components; a component is a name split into
\* stem and suffix, as pathlib splits it.
Comp(stem, suffix) == [stem |-> stem, suffix |-> suffix]

VideosDir == << Comp("videos", "") >>
SubDir == VideosDir \o << Comp("sub", ".d") >>
ClipsDir == << Comp("clips", "") >>
EmptyDir == << Comp("empty", "") >>
VideoA == VideosDir \o << Comp("a", ".mov") >>
VideoC == SubDir \o << Comp("c", ".mov") >>
ClipA == ClipsDir \o << Comp("a", ".mov") >>
MissingPath == << Comp("missing", "") >>
OutputRoot == << Comp("out", "") >>

\* The input side of the file system: videos/a.mov, videos/sub.d/c.mov,
\* clips/a.mov and the directory empty/, which holds nothing.
InputFiles == {VideoA, VideoC, ClipA}
InputDirs == {VideosDir, SubDir, ClipsDir, EmptyDir}

\* What -i may name: a directory with a file and a sub-directory, a file
\* elsewhere with the name of a file in it, an empty directory, a path that
\* does not exist.
InputSpecs == {VideosDir, ClipA, EmptyDir, MissingPath}

\* The preset's output_file_ext.
OutFileExt == ".mp4"

\* The output files that may exist before the run.
OutputCandidates ==
    { OutputRoot \o << Comp("a", OutFileExt) >>,
      OutputRoot \o << Comp("sub", ".d") >> \o << Comp("c", OutFileExt) >> }

\* What an output file holds is told by a path: no path when the file is
\* absent, its own path when it is as it was before the run, the path of
\* the input when a conversion completed into it, PartialOutput when the
\* converter opened it and has not completed.
NoFile == << >>
PartialOutput == << Comp("partial", "") >>

is_file(pt) == pt \in InputFiles
is_dir(pt) == pt \in InputDirs

\* The orders in which the file system may list videos/.
Listings == { << VideoA, SubDir >>, << SubDir, VideoA >> }

\* Path.parents[0]
parent(pt) == SubSeq(pt, 1, Len(pt) - 1)

\* a variant that keeps the file name alone
relative_to_name(pt, base) == << pt[Len(pt)] >>

\* Path.relative_to(base), for base a prefix of pt
relative_to(pt, base) == SubSeq(pt, Len(base) + 1, Len(pt))

\* Path.joinpath
joinpath(a, b) == a \o b

\* Path.with_suffix: the suffix of the final component is replaced
with_suffix(pt, ext) ==
    [pt EXCEPT ![Len(pt)] = Comp(pt[Len(pt)].stem, ext)]

(* ------------------------------ variables ------------------------------ *)

VARIABLES
    \* command line and environment, fixed for the run
    input_list,         \* args.i
    recursive,          \* args.r
    force,              \* args.f
    preset_state,       \* what presets.json holds for args.p
    out_is_dir,         \* whether args.o is a directory
    existing,           \* the output files that exist before the run
    listing,            \* the order in which videos/ lists its entries
    \* the program
    pc,                 \* position of the main thread
    in_idx,             \* _initialize_file_paths: index of in_path
    data,               \* Targets._data
    x_idx,              \* Targets.__init__: index of x in self._data
    files_to_create,
    files_to_overwrite,
    files_to_skip,
    accumulated_time,   \* doConvert locals
    total_time_sec,
    target_index,
    conv_task_list,
    t_idx,              \* doConvert: index of target in targets
    conv_completed,     \* completed of the newest conv_progress task
    overall_completed,  \* completed of the overall_progress task
    reply,              \* ask_for_confirmation: result, the answer read
    exit_status,
    \* observation of the run
    exit_cause,         \* why the process ended
    interrupted,        \* SIGINT was delivered
    probe_log,          \* outcome of the probe of each target probed
    mkdirs,             \* directories ensured, in order
    out_files,          \* what each output file holds
    invoked,            \* targets whose converter was started, in order
    inflight,           \* targets whose converter is running
    result,             \* how each started conversion ended: "completed",
                        \* or the exception raised in ffmpeg.execute()
    events              \* progress/completed events: task and running target

vars == << input_list, recursive, force, preset_state, out_is_dir, existing,
           listing, pc, in_idx, data, x_idx, files_to_create,
           files_to_overwrite, files_to_skip, reply, accumulated_time,
           total_time_sec, target_index, conv_task_list, t_idx,
           conv_completed, overall_completed, exit_status, exit_cause,
           interrupted, probe_log, mkdirs, out_files, invoked, inflight,
           result, events >>

inputVars == << input_list, recursive, force, preset_state, out_is_dir,
                existing, listing >>
planVars == << in_idx, data, x_idx, files_to_create, files_to_overwrite,
               files_to_skip, probe_log >>
convVars == << accumulated_time, total_time_sec, target_index,
               conv_task_list, t_idx, conv_completed, overall_completed,
               mkdirs, out_files, invoked, inflight, result, events >>

\* Path.glob('*'): the entries of a directory, in the order the file
\* system yields them
glob(dir) ==
    IF dir = VideosDir THEN listing
    ELSE IF dir = SubDir THEN << VideoC >>
    ELSE IF dir = ClipsDir THEN << ClipA >>
    ELSE << >>

(* ------------------------------- Init ---------------------------------- *)

\* the input lists: up to MaxInputs paths, each named once
InputLists ==
    UNION { { l \in [1..n -> InputSpecs] :
                \A i, j \in 1..n : l[i] = l[j] => i = j } : n \in 1..MaxInputs }

\* presets.json: it cannot be opened, it does not hold the preset named, the
\* preset lacks a field, all is there
PresetStates ==
    {"ok", "no_file", "unknown", "no_output_file_ext", "no_ffmpeg_args"}

Init ==
    /\ input_list \in InputLists
    /\ recursive \in BOOLEAN
    /\ force \in BOOLEAN
    /\ preset_state \in PresetStates
    /\ out_is_dir \in BOOLEAN
    /\ existing \in SUBSET OutputCandidates
    /\ listing \in Listings
    /\ pc = "main"
    /\ in_idx = 1
    /\ data = << >>
    /\ x_idx = 1
    /\ files_to_create = 0
    /\ files_to_overwrite = 0
    /\ files_to_skip = 0
    /\ reply = ""
    /\ accumulated_time = 0
    /\ total_time_sec = 0
    /\ target_index = 0
    /\ conv_task_list = << >>
    /\ t_idx = 1
    /\ conv_completed = 0
    /\ overall_completed = 0
    /\ exit_status = 0
    /\ exit_cause = "running"
    /\ interrupted = FALSE
    /\ probe_log = << >>
    /\ mkdirs = << >>
    /\ out_files = [ p \in OutputCandidates |->
                       IF p \in existing THEN p ELSE NoFile ]
    /\ invoked = << >>
    /\ inflight = {}
    /\ result = << >>
    /\ events = << >>

(* --------------------------- process exit ------------------------------ *)

\* a variant of error() that never ends the process
error_returns(terminate) == FALSE

\* error(message, terminate): whether the call ends the process (sys.exit(1))
error(terminate) == terminate

\* the status error() exits with
ErrorStatus == 1

\* a variant of signal_handler that exits with the status of an error
signal_handler_error(sig) == 1

\* signal_handler: the status it exits with
signal_handler(sig) == 0

\* the status of a process whose main() returned
MainReturnStatus == 0

\* the status of a process ended by an exception nothing caught
uncaught(exc) == 1

Exit(status, cause) ==
    /\ pc' = "exited"
    /\ exit_status' = status
    /\ exit_cause' = cause

(* ------------------------------ main, Preset --------------------------- *)

\* main: the output path must be a directory
CheckOutputDir ==
    /\ pc = "main"
    /\ IF ~out_is_dir /\ error(TRUE)
       THEN Exit(ErrorStatus, "fatal")
       ELSE /\ pc' = "preset"
            /\ UNCHANGED << exit_status, exit_cause >>
    /\ UNCHANGED << inputVars, reply, planVars, convVars, interrupted >>

\* the keys the chosen preset holds
PresetKeys(state) ==
    IF state = "ok" THEN {"output_file_ext", "ffmpeg_args"}
    ELSE IF state = "no_output_file_ext" THEN {"ffmpeg_args"}
    ELSE IF state = "no_ffmpeg_args" THEN {"output_file_ext"}
    ELSE {}

\* Preset._try_parse_keyword: the value, or the process ends in error(), or
\* (were error() to return) the lookup raises KeyError
try_parse_keyword(key) ==
    IF key \in PresetKeys(preset_state) THEN "value"
    ELSE IF error(TRUE) THEN "exit"
    ELSE "KeyError"

\* Preset.__init__
LoadPreset ==
    /\ pc = "preset"
    /\ IF preset_state = "no_file"
       THEN Exit(uncaught("FileNotFoundError"), "exception")
       ELSE IF preset_state = "unknown"
       THEN Exit(ErrorStatus, "fatal")
       ELSE LET ext == try_parse_keyword("output_file_ext")
                args == IF ext = "value"
                        THEN try_parse_keyword("ffmpeg_args")
                        ELSE ext
            IN  IF args = "value"
                THEN /\ pc' = "resolve"
                     /\ UNCHANGED << exit_status, exit_cause >>
                ELSE IF args = "exit"
                THEN Exit(ErrorStatus, "fatal")
                ELSE Exit(uncaught(args), "exception")
    /\ UNCHANGED << inputVars, reply, planVars, convVars, interrupted >>

(* ------------------------- Targets: file paths ------------------------- *)

Skip == "Skip"
Create == "Create"
Overwrite == "Overwrite"

\* a variant that takes an output path already planned for an output that
\* exists
generate_target_deduped(input_dir, output_dir, input_path, file_ext) ==
    LET op == with_suffix(joinpath(output_dir,
                                   relative_to(input_path, input_dir)),
                          file_ext)
    IN  [ input_path |-> input_path,
          output_path |-> op,
          output_exists |->
              \/ op \in existing
              \/ \E i \in 1..Len(data) : data[i].output_path = op,
          error_msg |-> "",
          action |-> Skip,
          duration_sec |-> 0 ]

\* a variant that takes every output for absent
generate_target_unseen(input_dir, output_dir, input_path, file_ext) ==
    LET op == with_suffix(joinpath(output_dir,
                                   relative_to(input_path, input_dir)),
                          file_ext)
    IN  [ input_path |-> input_path,
          output_path |-> op,
          output_exists |-> FALSE,
          error_msg |-> "",
          action |-> Skip,
          duration_sec |-> 0 ]

\* Targets._generate_target
generate_target(input_dir, output_dir, input_path, file_ext) ==
    LET op == with_suffix(joinpath(output_dir,
                                   relative_to(input_path, input_dir)),
                          file_ext)
    IN  [ input_path |-> input_path,
          output_path |-> op,
          output_exists |-> op \in existing,
          error_msg |-> "",
          action |-> Skip,
          duration_sec |-> 0 ]

RECURSIVE files_of_entries(_, _)
RECURSIVE get_list_off_files_in_directory(_, _)

\* the loop over the listing in _get_list_off_files_in_directory
files_of_entries(rd, rec) ==
    IF rd = << >> THEN << >>
    ELSE LET x == Head(rd)
             found == IF is_file(x) THEN << x >>
                      ELSE IF is_dir(x) /\ rec
                      THEN get_list_off_files_in_directory(x, rec)
                      ELSE << >>
         IN  found \o files_of_entries(Tail(rd), rec)

\* a variant that descends into every sub-directory, whatever the flag
list_at_any_depth(root_path, rec) ==
    files_of_entries(glob(root_path), TRUE)

\* Targets._get_list_off_files_in_directory
get_list_off_files_in_directory(root_path, rec) ==
    files_of_entries(glob(root_path), rec)

\* one pass of the loop of Targets._initialize_file_paths
InitializeFilePaths ==
    /\ pc = "resolve"
    /\ LET pt == input_list[in_idx]
           next == /\ in_idx' = in_idx + 1
                   /\ pc' = IF in_idx = Len(input_list)
                            THEN "probe" ELSE "resolve"
                   /\ UNCHANGED << exit_status, exit_cause >>
       IN  IF is_file(pt)
           THEN /\ data' = Append(data,
                       generate_target(parent(pt), OutputRoot, pt, OutFileExt))
                /\ next
           ELSE IF is_dir(pt)
           THEN /\ LET ip == get_list_off_files_in_directory(pt, recursive)
                   IN  data' = data \o
                         [ i \in 1..Len(ip) |->
                             generate_target(pt, OutputRoot, ip[i], OutFileExt) ]
                /\ next
           ELSE IF error(TRUE)
           THEN /\ Exit(ErrorStatus, "fatal")
                /\ UNCHANGED << in_idx, data >>
           ELSE /\ data' = data
                /\ next
    /\ UNCHANGED << inputVars, reply, x_idx, files_to_create,
                    files_to_overwrite, files_to_skip, probe_log, convVars,
                    interrupted >>

(* --------------------------- Targets: probing -------------------------- *)

\* FFmpegError.message of a failed ffprobe run, as split(':', 1) cuts it
FFmpegMessages ==
    { << "videos/a.mov", " Invalid data found when processing input" >>,
      << "Invalid data found when processing input" >> }

\* What the probe of one input can come to: a duration; ffprobe exits
\* non-zero; ffprobe is not installed; its output is no JSON; the JSON holds
\* no stream; the first stream holds no duration.
ProbeOutcomes ==
    [kind : {"duration"}, duration_sec : 0..MaxDur, message : {<< >>}]
    \cup [kind : {"exit_nonzero"}, duration_sec : {0}, message : FFmpegMessages]
    \cup [kind : {"tool_not_found", "malformed_json", "no_stream",
                  "no_duration"},
          duration_sec : {0}, message : {<< >>}]

\* Targets.get_video_duration_in_sec: the exception it raises, "none" when
\* it returns the duration
get_video_duration_in_sec(outcome) ==
    IF outcome.kind = "duration" THEN "none"
    ELSE IF outcome.kind = "exit_nonzero" THEN "FFmpegError"
    ELSE IF outcome.kind = "tool_not_found" THEN "FileNotFoundError"
    ELSE IF outcome.kind = "malformed_json" THEN "JSONDecodeError"
    ELSE IF outcome.kind = "no_stream" THEN "IndexError"
    ELSE "KeyError"

\* the except clause around the probe
ProbeCatches(exc) == exc = "FFmpegError"

\* str.lstrip
lstrip(s) ==
    IF s = " Invalid data found when processing input"
    THEN "Invalid data found when processing input"
    ELSE s

\* a variant of the decision that overwrites whatever the force flag says
decide_action_ignoring_force(action, output_exists, f) ==
    IF ~output_exists THEN Create ELSE Overwrite

\* the decision on a probed target: Create, Overwrite, or the action it had
decide_action(action, output_exists, f) ==
    IF ~output_exists THEN Create
    ELSE IF output_exists /\ f THEN Overwrite
    ELSE action

\* one pass of the loop of Targets.__init__
ProbeTarget ==
    /\ pc = "probe"
    /\ x_idx <= Len(data)
    /\ \E outcome \in ProbeOutcomes :
         LET x == [data[x_idx] EXCEPT !.action = Skip]
             exc == get_video_duration_in_sec(outcome)
             next == /\ x_idx' = x_idx + 1
                     /\ UNCHANGED << pc, exit_status, exit_cause >>
         IN  /\ probe_log' = Append(probe_log, outcome.kind)
             /\ IF exc = "none"
                THEN LET a == decide_action(x.action, x.output_exists, force)
                     IN  /\ data' = [data EXCEPT ![x_idx] =
                                 [x EXCEPT !.duration_sec = outcome.duration_sec,
                                           !.action = a]]
                         /\ files_to_create' =
                                files_to_create + (IF a = Create THEN 1 ELSE 0)
                         /\ files_to_overwrite' =
                                files_to_overwrite
                                + (IF a = Overwrite THEN 1 ELSE 0)
                         /\ next
                ELSE IF ProbeCatches(exc) /\ exc = "FFmpegError"
                        /\ Len(outcome.message) >= 2
                THEN /\ data' = [data EXCEPT ![x_idx] =
                             [x EXCEPT !.error_msg = lstrip(outcome.message[2])]]
                     /\ UNCHANGED << files_to_create, files_to_overwrite >>
                     /\ next
                ELSE \* nothing catches exc, or the handler itself raises
                     \* (IndexError of split(':', 1)[1])
                     /\ data' = [data EXCEPT ![x_idx] = x]
                     /\ Exit(uncaught(exc), "exception")
                     /\ UNCHANGED << x_idx, files_to_create,
                                     files_to_overwrite >>
    /\ UNCHANGED << inputVars, reply, in_idx, files_to_skip, convVars,
                    interrupted >>

\* a variant of the count of skipped targets that leaves the targets to
\* overwrite out
count_skipped_without_overwrite(count, to_create, to_overwrite) ==
    count - to_create

\* Targets.__init__: files_to_skip
count_skipped(count, to_create, to_overwrite) ==
    count - to_create - to_overwrite

\* a variant of the test that always finds something to process
always_something_to_process(to_create, to_overwrite) == FALSE

\* ask_for_confirmation: files_to_process == 0
nothing_to_process(to_create, to_overwrite) == to_create + to_overwrite = 0

\* the end of Targets.__init__ and main up to the prompt of
\* ask_for_confirmation
MainAfterPlanning ==
    /\ pc = "probe"
    /\ x_idx > Len(data)
    /\ files_to_skip' =
           count_skipped(Len(data), files_to_create, files_to_overwrite)
    /\ IF Len(data) = 0
       THEN IF error(TRUE)
            THEN Exit(ErrorStatus, "fatal")
            ELSE Exit(uncaught("ValueError"), "exception")
       ELSE IF nothing_to_process(files_to_create, files_to_overwrite)
            THEN Exit(MainReturnStatus, "nothing_to_do")
            ELSE /\ pc' = "confirm"
                 /\ UNCHANGED << exit_status, exit_cause >>
    /\ UNCHANGED << inputVars, reply, in_idx, data, x_idx, files_to_create,
                    files_to_overwrite, probe_log, convVars, interrupted >>

(* --------------------- confirmation and doConvert ---------------------- *)

RECURSIVE sum(_)
\* sum([...]) of a list of numbers
sum(list) == IF list = << >> THEN 0 ELSE Head(list) + sum(Tail(list))

\* the indices of the targets the loop of doConvert does not skip
RECURSIVE not_skipped(_, _)
not_skipped(targets, i) ==
    IF i > Len(targets) THEN << >>
    ELSE (IF targets[i].action # Skip THEN << i >> ELSE << >>)
         \o not_skipped(targets, i + 1)

\* a variant of total_time_sec that counts the skipped targets too
total_duration_of_all(targets) ==
    sum([ n \in 1..Len(targets) |-> targets[n].duration_sec ])

\* doConvert: total_time_sec
total_duration(targets) ==
    LET idx == not_skipped(targets, 1)
    IN  sum([ n \in 1..Len(idx) |-> targets[idx[n]].duration_sec ])

\* ask_for_confirmation: the prompt is repeated until the answer is y or n;
\* on y, doConvert is entered
Confirm ==
    /\ pc = "confirm"
    /\ \E answer \in {"y", "n", ""} :
         /\ reply' = answer
         /\ IF answer = "y"
            THEN /\ pc' = "loop"
                 /\ accumulated_time' = 0
                 /\ total_time_sec' = total_duration(data)
                 /\ overall_completed' = 0
                 /\ conv_task_list' = << >>
                 /\ target_index' = 0
                 /\ t_idx' = 1
                 /\ UNCHANGED << exit_status, exit_cause >>
            ELSE IF answer = "n"
            THEN /\ Exit(MainReturnStatus, "declined")
                 /\ UNCHANGED << accumulated_time, total_time_sec,
                                 overall_completed, conv_task_list,
                                 target_index, t_idx >>
            ELSE UNCHANGED << pc, exit_status, exit_cause, accumulated_time,
                              total_time_sec, overall_completed,
                              conv_task_list, target_index, t_idx >>
    /\ UNCHANGED << inputVars, planVars, conv_completed, mkdirs, out_files,
                    invoked, inflight, result, events, interrupted >>

\* a variant that takes conv_task_list[0]
first_task(list) == list[1]

\* conv_task_list[-1]
current_task(list) == list[Len(list)]

\* the record of an event: the task it updates and the conversions running
\* when it arrives; an event like the one before it is not recorded again
record_event(log, task, running) ==
    LET e == [task |-> task, running |-> running]
    IN  IF log # << >> /\ log[Len(log)] = e THEN log ELSE Append(log, e)

\* a variant of the test that skips only the targets whose probe failed
skipped_on_error_only(target) == target.action = Skip /\ target.error_msg # ""

\* the test at the head of the loop of doConvert
is_skipped(target) == target.action = Skip

\* the loop of doConvert at a target whose action is Skip
ConvertSkip ==
    /\ pc = "loop"
    /\ t_idx <= Len(data)
    /\ is_skipped(data[t_idx])
    /\ t_idx' = t_idx + 1
    /\ UNCHANGED << inputVars, reply, planVars, pc, exit_status, exit_cause,
                    accumulated_time, total_time_sec, target_index,
                    conv_task_list, conv_completed, overall_completed, mkdirs,
                    out_files, invoked, inflight, result, events,
                    interrupted >>

\* a variant that adds the task of the target and ensures no directory
AddTaskWithoutDirectory ==
    /\ pc = "loop"
    /\ t_idx <= Len(data)
    /\ ~is_skipped(data[t_idx])
    /\ conv_task_list' = Append(conv_task_list, t_idx)
    /\ conv_completed' = 0
    /\ pc' = "ensured"
    /\ UNCHANGED << inputVars, reply, planVars, exit_status, exit_cause,
                    accumulated_time, total_time_sec, target_index, t_idx,
                    overall_completed, mkdirs, out_files, invoked, inflight,
                    result, events, interrupted >>

\* the loop of doConvert at any other target: mkdir(parents=True,
\* exist_ok=True) ensures the directory of the output, then the task of the
\* target is added
EnsureDirectory ==
    /\ pc = "loop"
    /\ t_idx <= Len(data)
    /\ ~is_skipped(data[t_idx])
    /\ mkdirs' = Append(mkdirs, parent(data[t_idx].output_path))
    /\ conv_task_list' = Append(conv_task_list, t_idx)
    /\ conv_completed' = 0
    /\ pc' = "ensured"
    /\ UNCHANGED << inputVars, reply, planVars, exit_status, exit_cause,
                    accumulated_time, total_time_sec, target_index, t_idx,
                    overall_completed, out_files, invoked, inflight, result,
                    events, interrupted >>

\* FFmpeg().option("y"): the converter is told to overwrite an output
\* that exists
option_y == TRUE

\* the converter opens its output: with -y, or when there is no such
\* file, the file is made anew; else the converter leaves it alone
open_output(files, output_path) ==
    IF option_y \/ files[output_path] = NoFile
    THEN [files EXCEPT ![output_path] = PartialOutput]
    ELSE files

\* the try block: the command is built, the handlers are registered and
\* ffmpeg.execute() is entered
ConvertStart ==
    /\ pc = "ensured"
    /\ out_files' = open_output(out_files, data[t_idx].output_path)
    /\ invoked' = Append(invoked, t_idx)
    /\ inflight' = inflight \cup {t_idx}
    /\ pc' = "running"
    /\ UNCHANGED << inputVars, reply, planVars, exit_status, exit_cause,
                    accumulated_time, total_time_sec, target_index, t_idx,
                    conv_task_list, conv_completed, overall_completed, mkdirs,
                    result, events, interrupted >>

\* on_progress: ffmpeg reports the time encoded so far, which does not go
\* back and does not pass the duration of the input
OnProgress ==
    /\ pc = "running"
    /\ \E seconds \in conv_completed..data[t_idx].duration_sec :
         /\ conv_completed' = seconds
         /\ overall_completed' = accumulated_time + seconds
    /\ events' = record_event(events, current_task(conv_task_list), inflight)
    /\ UNCHANGED << inputVars, reply, planVars, pc, exit_status, exit_cause,
                    accumulated_time, total_time_sec, target_index,
                    conv_task_list, t_idx, mkdirs, out_files, invoked,
                    inflight, result, interrupted >>

\* a variant of the addition that leaves the time as it is
accumulate_nothing(acc, duration) == acc

\* on_completed: accumulated_time += target.duration_sec
accumulate(acc, duration) == acc + duration

\* on_completed, after which ffmpeg.execute() returns
OnCompleted ==
    /\ pc = "running"
    /\ out_files[data[t_idx].output_path] = PartialOutput
    /\ out_files' = [out_files EXCEPT
                        ![data[t_idx].output_path] = data[t_idx].input_path]
    /\ conv_completed' = data[t_idx].duration_sec
    /\ accumulated_time' =
           accumulate(accumulated_time, data[t_idx].duration_sec)
    /\ target_index' = target_index + 1
    /\ events' = record_event(events, current_task(conv_task_list), inflight)
    /\ inflight' = inflight \ {t_idx}
    /\ result' = Append(result, "completed")
    /\ t_idx' = t_idx + 1
    /\ pc' = "loop"
    /\ UNCHANGED << inputVars, reply, planVars, exit_status, exit_cause,
                    total_time_sec, conv_task_list, overall_completed, mkdirs,
                    invoked, interrupted >>

\* variants of the except clause: one that catches nothing, one that
\* catches everything (a bare except)
convert_catches_nothing(exc) == FALSE
convert_catches_all(exc) == TRUE

\* the except clause around the conversion
ConvertCatches(exc) == exc = "FFmpegError"

\* the conversion ends with exc raised in ffmpeg.execute(): the except
\* clause prints it and the loop goes on, or nothing catches it
ConversionEnds(exc) ==
    /\ inflight' = inflight \ {t_idx}
    /\ result' = Append(result, exc)
    /\ IF ConvertCatches(exc)
       THEN /\ t_idx' = t_idx + 1
            /\ pc' = "loop"
            /\ UNCHANGED << exit_status, exit_cause >>
       ELSE /\ Exit(IF exc = "SystemExit" THEN signal_handler("SIGINT")
                    ELSE uncaught(exc),
                    IF exc = "SystemExit" THEN "interrupt" ELSE "exception")
            /\ UNCHANGED t_idx
    /\ UNCHANGED << inputVars, reply, planVars, accumulated_time,
                    total_time_sec, target_index, conv_task_list,
                    conv_completed, overall_completed, mkdirs, out_files,
                    invoked, events >>

\* ffmpeg.execute() raises: FFmpegError when the converter reports an
\* error, another exception when the converter cannot be run
ExecuteRaises ==
    /\ pc = "running"
    /\ \E exc \in {"FFmpegError", "FileNotFoundError"} : ConversionEnds(exc)
    /\ UNCHANGED interrupted

\* the loop of doConvert is exhausted: the last update of the overall
\* progress; doConvert and main return
ConvertFinish ==
    /\ pc = "loop"
    /\ t_idx > Len(data)
    /\ overall_completed' = total_time_sec
    /\ Exit(MainReturnStatus, "completed")
    /\ UNCHANGED << inputVars, reply, planVars, accumulated_time,
                    total_time_sec, target_index, conv_task_list, t_idx,
                    conv_completed, mkdirs, out_files, invoked, inflight,
                    result, events, interrupted >>

(* ------------------------------- SIGINT -------------------------------- *)

\* SIGINT: signal_handler raises SystemExit in the main thread, wherever it
\* is; inside a try block the except clause is asked first
Interrupt ==
    /\ pc # "exited"
    /\ interrupted' = TRUE
    /\ IF pc = "running"
       THEN ConversionEnds("SystemExit")
       ELSE /\ IF pc = "probe" /\ x_idx <= Len(data)
                  /\ ProbeCatches("SystemExit")
               THEN \* the handler reads exception.message, which
                    \* SystemExit has not
                    Exit(uncaught("AttributeError"), "exception")
               ELSE Exit(signal_handler("SIGINT"), "interrupt")
            /\ UNCHANGED << inputVars, reply, planVars, convVars >>

(* --------------------------- specification ----------------------------- *)

Next ==
    \/ CheckOutputDir
    \/ LoadPreset
    \/ InitializeFilePaths
    \/ ProbeTarget
    \/ MainAfterPlanning
    \/ Confirm
    \/ ConvertSkip
    \/ EnsureDirectory
    \/ ConvertStart
    \/ OnProgress
    \/ OnCompleted
    \/ ExecuteRaises
    \/ ConvertFinish
    \/ Interrupt

Spec == Init /\ [][Next]_vars

\* The loop of doConvert takes its next step when it has one, and every
\* converter started returns: ffmpeg.execute() comes back after the
\* completed event or raises.  Nothing is asked of the user or of SIGINT.
FairSpec ==
    /\ Spec
    /\ WF_vars(ConvertSkip)
    /\ WF_vars(EnsureDirectory)
    /\ WF_vars(ConvertStart)
    /\ WF_vars(OnCompleted \/ ExecuteRaises)
    /\ WF_vars(ConvertFinish)

(* ------------------------------ claims --------------------------------- *)

\* planning is over: every input is resolved and every target is probed
Planned == in_idx > Len(input_list) /\ x_idx > Len(data)

\* the decision table of the classifier
TableAction(probe_ok, output_exists, f) ==
    IF ~probe_ok THEN Skip
    ELSE IF ~output_exists THEN Create
    ELSE IF f THEN Overwrite
    ELSE Skip

\* C1: after planning, the action of every target is the one the decision
\* table gives for its own probe outcome, output_exists and the force flag:
\* Skip when the probe failed, Create when the output is absent, Overwrite
\* when it exists and force is set, Skip when it exists and force is unset;
\* the targets classified before it play no part.
C1_ActionsFollowTable ==
    Planned =>
        \A i \in 1..Len(data) :
            /\ data[i].action =
                   TableAction(probe_log[i] = "duration",
                               data[i].output_exists, force)
            /\ (data[i].error_msg # "" => data[i].action = Skip)

\* C1 witness: planning ended with a target to overwrite and with a target
\* skipped for its failed probe although its output exists and force is set
C1_Witness ==
    /\ Planned
    /\ force
    /\ \E i, j \in 1..Len(data) :
          /\ data[i].action = Overwrite
          /\ probe_log[j] # "duration" /\ data[j].output_exists
          /\ data[j].action = Skip
          /\ i < j

\* how often target k was handed to the converter
Invocations(k) == Cardinality({ n \in 1..Len(invoked) : invoked[n] = k })

\* C2: when the conversion of target k ends with an error the converter
\* reports, the executor goes on past k, k is not invoked a second time,
\* and a batch that runs to its end has invoked every later target that is
\* not skipped.
C2_FailureDoesNotStopBatch ==
    \A n \in 1..Len(result) :
        result[n] = "FFmpegError" =>
            LET k == invoked[n]
            IN  /\ t_idx > k
                /\ Invocations(k) = 1
                /\ exit_cause = "completed" =>
                       \A j \in (k + 1)..Len(data) :
                           data[j].action # Skip => Invocations(j) >= 1

\* C2 witness: the batch ran to its end after a failed conversion that was
\* followed by a later conversion
C2_Witness ==
    /\ exit_cause = "completed"
    /\ \E n \in 1..Len(result) :
          result[n] = "FFmpegError" /\ n < Len(result)

\* C3: a probe failure of whatever kind never aborts planning: the target
\* is left with action Skip, a recorded error message and duration 0, and
\* the process is not ended at that target.
C3_ProbeFailureNeverAborts ==
    \A i \in 1..Len(probe_log) :
        probe_log[i] # "duration" =>
            /\ data[i].action = Skip
            /\ data[i].error_msg # ""
            /\ data[i].duration_sec = 0
            /\ ~(exit_cause = "exception" /\ x_idx = i)

\* C4: over the updates of the overall progress that doConvert makes (the
\* ticks of every target, completed or failed, and the last update) the
\* completed value never goes down.
C4_OverallNeverDecreases ==
    [][overall_completed' >= overall_completed]_vars

\* the durations of the targets that are not skipped, added up
RECURSIVE DurationUpTo(_)
DurationUpTo(i) ==
    IF i = 0 THEN 0
    ELSE DurationUpTo(i - 1)
         + (IF data[i].action # Skip THEN data[i].duration_sec ELSE 0)

\* C5: the total is the sum of duration_sec over the targets whose action
\* is not Skip, fixed before the loop, and when the loop of doConvert is
\* over, whichever conversions completed or failed, the last update of the
\* overall progress sets completed to that total.
C5_LastUpdateIsTotal ==
    /\ pc \in {"loop", "running"} => total_time_sec = DurationUpTo(Len(data))
    /\ exit_cause = "completed" =>
           /\ total_time_sec = DurationUpTo(Len(data))
           /\ overall_completed = total_time_sec

\* C5 witness: the loop is over after a failed conversion, with a total
\* above zero and a skipped target that has a duration of its own
C5_Witness ==
    /\ exit_cause = "completed"
    /\ total_time_sec > 0
    /\ \E n \in 1..Len(result) : result[n] = "FFmpegError"
    /\ \E i \in 1..Len(data) :
          data[i].action = Skip /\ data[i].duration_sec > 0

\* C6: the converter is started for the targets to create or overwrite
\* only, each at most once, in the order of the collection and without
\* leaving one out on the way; a directory is ensured for each target
\* started, and for none but these and the one about to start; a batch that
\* runs to its end has started each of them.
C6_OncePerTargetInOrder ==
    /\ \A n \in 1..Len(invoked) :
          /\ invoked[n] \in 1..Len(data)
          /\ data[invoked[n]].action \in {Create, Overwrite}
          /\ { invoked[m] : m \in 1..(n - 1) } =
                 { j \in 1..(invoked[n] - 1) : data[j].action # Skip }
    /\ \A m, n \in 1..Len(invoked) : m < n => invoked[m] < invoked[n]
    /\ Len(mkdirs) = Len(conv_task_list)
    /\ Len(invoked) <= Len(mkdirs)
    /\ Len(mkdirs) <= Len(invoked) + 1
    /\ \A n \in 1..Len(invoked) : invoked[n] = conv_task_list[n]
    /\ \A n \in 1..Len(mkdirs) :
          /\ data[conv_task_list[n]].action \in {Create, Overwrite}
          /\ mkdirs[n] = parent(data[conv_task_list[n]].output_path)
    /\ exit_cause = "completed" =>
          \A j \in 1..Len(data) :
              Invocations(j) = (IF data[j].action = Skip THEN 0 ELSE 1)

\* C6 witness: a batch ran to its end with two conversions started and a
\* skipped target ahead of the last of them
C6_Witness ==
    /\ exit_cause = "completed"
    /\ Len(invoked) >= 2
    /\ \E j \in 1..Len(data) :
          data[j].action = Skip /\ j < invoked[Len(invoked)]

\* C7: at most one conversion is running at any time, the one of the
\* target the loop is at; every event updates the task of the one target
\* that is running when it arrives, and the events of a target come before
\* those of the targets after it.
C7_OneConversionAtATime ==
    /\ Cardinality(inflight) <= 1
    /\ pc = "running" => inflight = {t_idx}
    /\ pc \in {"loop", "ensured", "confirm", "probe", "resolve"} =>
          inflight = {}
    /\ \A n \in 1..Len(events) : events[n].running = {events[n].task}
    /\ \A m, n \in 1..Len(events) :
          m < n => events[m].task < events[n].task

\* C7 witness: a second conversion is running and events of both have
\* arrived
C7_Witness ==
    /\ pc = "running"
    /\ Len(invoked) >= 2
    /\ Len(events) >= 2

\* C8: once SIGINT is delivered the process has ended: the interrupt is
\* not taken for a failed conversion, no converter is started and none is
\* started again.
C8_InterruptEndsBatch ==
    [][interrupted' => (pc' = "exited" /\ invoked' = invoked)]_vars

\* C8 witness: SIGINT arrived while a conversion was running, with targets
\* still to convert
C8_Witness ==
    /\ interrupted
    /\ pc = "exited"
    /\ Len(invoked) >= 1
    /\ Len(result) = Len(invoked)
    /\ result[Len(result)] = "SystemExit"
    /\ \E j \in (t_idx + 1)..Len(data) : data[j].action # Skip

\* C9 as stated: a process ended by SIGINT exits with a status other than
\* that of a batch that ran to its end.
C9_InterruptStatusDistinct ==
    exit_cause = "interrupt" => exit_status # MainReturnStatus

\* C9 as amended: a process ended by SIGINT exits with status 0, the status
\* of a batch that ran to its end; it differs from the status of a fatal
\* error only.
C9_InterruptStatusIsZero ==
    exit_cause = "interrupt" =>
        /\ exit_status = MainReturnStatus
        /\ exit_status # ErrorStatus

\* C9 witness: SIGINT ended the process during the batch
C9_Witness ==
    /\ exit_cause = "interrupt"
    /\ pc = "exited"
    /\ Len(invoked) >= 1

\* the preset is missing or lacks a field, or an input is neither a file
\* nor a directory
BadConfiguration ==
    \/ preset_state # "ok"
    \/ \E k \in 1..Len(input_list) :
          ~is_file(input_list[k]) /\ ~is_dir(input_list[k])

\* C10: with a missing or incomplete preset, or with an input (wherever it
\* stands in the list) that is neither a file nor a directory, nothing is
\* probed, no directory is ensured and no conversion is started, and the
\* run, unless interrupted before, ends in an error with a status other
\* than 0.
C10_FatalErrorsPrecedeWork ==
    BadConfiguration =>
        /\ probe_log = << >>
        /\ mkdirs = << >>
        /\ invoked = << >>
        /\ pc \in {"main", "preset", "resolve", "exited"}
        /\ (pc = "exited" /\ ~interrupted) =>
               (exit_cause \in {"fatal", "exception"} /\ exit_status # 0)

\* C10 witness: the run ended in a fatal error at the second input, after
\* the first one was resolved into targets
C10_Witness ==
    /\ pc = "exited"
    /\ exit_cause = "fatal"
    /\ preset_state = "ok"
    /\ out_is_dir
    /\ in_idx = 2
    /\ Len(data) >= 1


\* Targets.__init__ has returned
PlanningReturned ==
    /\ Planned
    /\ \/ pc \in {"confirm", "loop", "ensured", "running"}
       \/ exit_cause \in {"nothing_to_do", "declined", "completed"}
       \/ invoked # << >>

\* the number of targets with the action given
CountOf(action) ==
    Cardinality({ i \in 1..Len(data) : data[i].action = action })

\* C11: after planning the three counters add up to the number of targets,
\* and each is the number of targets with its action: files_to_create of
\* Create, files_to_overwrite of Overwrite, files_to_skip of Skip, the
\* targets whose probe failed among them.
C11_CountersMatchActions ==
    PlanningReturned =>
        /\ files_to_create + files_to_overwrite + files_to_skip = Len(data)
        /\ files_to_create = CountOf(Create)
        /\ files_to_overwrite = CountOf(Overwrite)
        /\ files_to_skip = CountOf(Skip)

\* C11 witness: planning returned with a target of each action, one of the
\* skipped targets being one whose probe failed
C11_Witness ==
    /\ PlanningReturned
    /\ files_to_create >= 1
    /\ files_to_overwrite >= 1
    /\ \E i \in 1..Len(data) :
          data[i].action = Skip /\ probe_log[i] # "duration"


\* doConvert was entered: the loop is at work, or it left a trace
ExecutorInvoked ==
    \/ pc \in {"loop", "ensured", "running"}
    \/ exit_cause = "completed"
    \/ mkdirs # << >>
    \/ invoked # << >>
    \/ conv_task_list # << >>

\* C12: doConvert is entered only when files_to_create + files_to_overwrite
\* is positive and the answer read is y; the prompt is shown only when that
\* sum is positive; a run whose sum is zero ends with no answer read, no
\* directory ensured and no conversion started.
C12_ExecutorNeedsWorkAndConsent ==
    /\ ExecutorInvoked =>
          files_to_create + files_to_overwrite > 0 /\ reply = "y"
    /\ pc = "confirm" => files_to_create + files_to_overwrite > 0
    /\ (PlanningReturned /\ files_to_create + files_to_overwrite = 0) =>
          /\ exit_cause = "nothing_to_do"
          /\ reply = ""
          /\ ~ExecutorInvoked

\* C12 witness: a run converted a target after the answer y
C12_Witness ==
    /\ exit_cause = "completed"
    /\ reply = "y"
    /\ invoked # << >>

\* the other case of C12: every target is skipped and the run ends unasked
C12_NothingToDoReached ==
    /\ exit_cause = "nothing_to_do"
    /\ Len(data) >= 1
    /\ files_to_skip = Len(data)
    /\ reply = ""


\* base is a proper prefix of pt
IsUnder(pt, base) ==
    Len(base) < Len(pt) /\ \A k \in 1..Len(base) : pt[k] = base[k]

\* the input specification a target's input path comes from
SpecOf(input_path) ==
    CHOOSE n \in 1..Len(input_list) :
        \/ input_list[n] = input_path
        \/ is_dir(input_list[n]) /\ IsUnder(input_path, input_list[n])

\* the root of an input specification: a directory is its own root, a
\* file has its parent directory for root
SpecRoot(spec) == IF is_file(spec) THEN parent(spec) ELSE spec

\* C13: the output path of every target is the output root followed by the
\* components of the input path below the root of its specification, with
\* the suffix of the last component alone replaced by the preset's; a
\* target of a file specification lies directly in the output root.
C13_OutputPathMirrorsInput ==
    \A i \in 1..Len(data) :
        LET ip == data[i].input_path
            op == data[i].output_path
            spec == input_list[SpecOf(ip)]
            base == Len(SpecRoot(spec))
            root == Len(OutputRoot)
            n == Len(ip) - base
        IN  /\ IsUnder(ip, SpecRoot(spec))
            /\ Len(op) = root + n
            /\ \A k \in 1..root : op[k] = OutputRoot[k]
            /\ \A k \in 1..(n - 1) : op[root + k] = ip[base + k]
            /\ op[root + n].stem = ip[base + n].stem
            /\ op[root + n].suffix = OutFileExt
            /\ is_file(spec) => n = 1

\* C13 witness: a file two levels below a directory specification and a
\* file named directly are both planned
C13_Witness ==
    /\ \E i \in 1..Len(data) :
          /\ data[i].input_path = VideoC
          /\ Len(data[i].output_path) = Len(OutputRoot) + 2
    /\ \E i \in 1..Len(data) :
          /\ data[i].input_path = ClipA
          /\ Len(data[i].output_path) = Len(OutputRoot) + 1


\* the regular files a directory specification stands for: its direct
\* children, and with the flag the files at any depth below it
FilesBelow(dir, rec) ==
    { f \in InputFiles : IsUnder(f, dir) /\ (rec \/ Len(f) = Len(dir) + 1) }

\* the targets whose input path is f
TargetsOf(f) == { i \in 1..Len(data) : data[i].input_path = f }

\* C14: for every specification resolved so far, a directory has exactly
\* one target for each file it stands for (direct children only unless
\* recursive) and none for any other file under it, a file has exactly one
\* target; the targets follow the order of the input list, those of one
\* specification before those of the next.
C14_OneTargetPerFileInListOrder ==
    /\ \A n \in 1..Len(input_list) :
          n < in_idx =>
             LET spec == input_list[n]
             IN  /\ is_dir(spec) =>
                       \A f \in InputFiles :
                          IsUnder(f, spec) =>
                             Cardinality(TargetsOf(f)) =
                                IF f \in FilesBelow(spec, recursive)
                                THEN 1 ELSE 0
                 /\ is_file(spec) => Cardinality(TargetsOf(spec)) = 1
    /\ \A i, j \in 1..Len(data) :
          i < j => SpecOf(data[i].input_path) <= SpecOf(data[j].input_path)
    /\ \A i \in 1..Len(data) : SpecOf(data[i].input_path) < in_idx

\* C14 witness: a recursive run resolved a file two levels down, listed
\* before its sibling, and then a file named after the directory
C14_Witness ==
    /\ in_idx > Len(input_list)
    /\ recursive
    /\ input_list = << VideosDir, ClipA >>
    /\ listing = << SubDir, VideoA >>
    /\ Len(data) = 3
    /\ data[3].input_path = ClipA

\* the other case of C14: without the flag the sub-directory yields nothing
C14_FlatListingReached ==
    /\ in_idx > Len(input_list)
    /\ ~recursive
    /\ input_list = << ClipA, VideosDir >>
    /\ Len(data) = 2
    /\ data[2].input_path = VideoA


\* some conversion started ran to its end
SomeCompleted == \E n \in 1..Len(result) : result[n] = "completed"

\* C15: when the loop of doConvert has been through every target and
\* conversions were started, the exit status is the success status if some
\* conversion completed and another status if every one of them failed.
C15_StatusTellsAllFailed ==
    (exit_cause = "completed" /\ invoked # << >>) =>
        (exit_status = 0 <=> SomeCompleted)


\* the conversions started that ran to their end, by their place in invoked
CompletedRuns == { n \in 1..Len(result) : result[n] = "completed" }

\* the durations of the targets whose conversion completed, added up
RECURSIVE CompletedDurationUpTo(_)
CompletedDurationUpTo(n) ==
    IF n = 0 THEN 0
    ELSE CompletedDurationUpTo(n - 1)
         + (IF result[n] = "completed"
            THEN data[invoked[n]].duration_sec ELSE 0)

\* the durations of the targets that are not skipped, added up
RECURSIVE NonSkipDurationUpTo(_)
NonSkipDurationUpTo(i) ==
    IF i = 0 THEN 0
    ELSE NonSkipDurationUpTo(i - 1)
         + (IF data[i].action # Skip THEN data[i].duration_sec ELSE 0)

\* C16, in a state: accumulated_time is the sum of the durations of the
\* targets whose conversion completed, each counted once, with nothing for
\* a failed, a running or a skipped target; target_index is the number of
\* those targets; accumulated_time does not pass the total duration of the
\* targets that are not skipped.
AccumulatedTimeIsCompletedSum ==
    /\ accumulated_time = CompletedDurationUpTo(Len(result))
    /\ target_index = Cardinality(CompletedRuns)
    /\ \A n, k \in CompletedRuns : invoked[n] = invoked[k] => n = k
    /\ \A n \in CompletedRuns : data[invoked[n]].action # Skip
    /\ accumulated_time <= NonSkipDurationUpTo(Len(data))

\* C16: at every point of doConvert accumulated_time is the sum of the
\* durations of exactly the targets completed so far and target_index is
\* their number; accumulated_time never decreases and never exceeds the
\* total duration of the targets that are not skipped.
C16_AccumulatedTimeSound ==
    /\ []AccumulatedTimeIsCompletedSum
    /\ [][accumulated_time' >= accumulated_time]_vars

\* C16 witness: one conversion completed, one failed on an input of
\* positive duration, one target of positive duration was skipped
C16_Witness ==
    /\ exit_cause = "completed"
    /\ \E n \in 1..Len(result) :
          result[n] = "completed" /\ data[invoked[n]].duration_sec > 0
    /\ \E n \in 1..Len(result) :
          result[n] = "FFmpegError" /\ data[invoked[n]].duration_sec > 0
    /\ \E i \in 1..Len(data) :
          data[i].action = Skip /\ data[i].duration_sec > 0
    /\ accumulated_time < total_time_sec


\* where target j stands in doConvert: Pending until its directory is
\* ensured, DirectoryEnsured until its converter is started, Running until
\* the converter returns, then Completed, or Failed when the converter
\* reported an error; Aborted when the process ended under the conversion
TargetState(j) ==
    IF \E n \in 1..Len(result) : invoked[n] = j
    THEN LET n == CHOOSE n \in 1..Len(result) : invoked[n] = j
         IN  IF result[n] = "completed" THEN "Completed"
             ELSE IF result[n] = "FFmpegError" THEN "Failed"
             ELSE "Aborted"
    ELSE IF \E n \in 1..Len(invoked) : invoked[n] = j THEN "Running"
    ELSE IF \E n \in 1..Len(mkdirs) :
               /\ n <= Len(conv_task_list)
               /\ conv_task_list[n] = j
               /\ mkdirs[n] = parent(data[j].output_path)
    THEN "DirectoryEnsured"
    ELSE "Pending"

\* the steps a target may take
TargetSteps ==
    { << "Pending", "DirectoryEnsured" >>,
      << "DirectoryEnsured", "Running" >>,
      << "Running", "Completed" >>,
      << "Running", "Failed" >>,
      << "Running", "Aborted" >> }

\* C17, in a state: a skipped target stays Pending; a converter is running
\* or has run only for a target whose directory was ensured before; when
\* the loop has been through every target each target that is not skipped
\* is Completed or Failed.
TargetStatesSound ==
    /\ \A j \in 1..Len(data) :
          data[j].action = Skip => TargetState(j) = "Pending"
    /\ \A n \in 1..Len(invoked) :
          /\ n <= Len(mkdirs)
          /\ mkdirs[n] = parent(data[invoked[n]].output_path)
    /\ \A j \in 1..Len(data) :
          TargetState(j) = "Running" <=> j \in inflight
    /\ exit_cause = "completed" =>
          \A j \in 1..Len(data) :
              data[j].action # Skip =>
                  TargetState(j) \in {"Completed", "Failed"}

\* C17, in a step: a target changes its state along Pending,
\* DirectoryEnsured, Running and then Completed or Failed, one state at a
\* time; it is Aborted only by the step that ends the process.
TargetStepsInOrder ==
    \A j \in 1..Len(data) :
        \/ TargetState(j)' = TargetState(j)
        \/ /\ << TargetState(j), TargetState(j)' >> \in TargetSteps
           /\ TargetState(j)' = "Aborted" => pc' = "exited"

\* the process was ended from outside the loop: by SIGINT, or because
\* the converter could not be run at all, which ffmpeg.execute() raises as
\* an exception that is not the converter's report of an error
EndedFromOutside ==
    \/ interrupted
    \/ /\ exit_cause = "exception"
       /\ \E n \in 1..Len(result) : result[n] = "FileNotFoundError"

\* C17: every target that is not skipped goes through Pending,
\* DirectoryEnsured, Running in that order and ends Completed or Failed;
\* its directory is ensured before its converter is started; and when
\* every converter started returns, the loop gets through every target and
\* doConvert ends, unless the process is ended from outside.
C17_TargetLifeCycle ==
    /\ []TargetStatesSound
    /\ [][TargetStepsInOrder]_vars
    /\ (pc = "loop") ~> (exit_cause = "completed" \/ EndedFromOutside)

\* C17 witness: the loop ended with one target Completed, one Failed and
\* one skipped
C17_Witness ==
    /\ exit_cause = "completed"
    /\ \E j \in 1..Len(data) : TargetState(j) = "Completed"
    /\ \E j \in 1..Len(data) : TargetState(j) = "Failed"
    /\ \E j \in 1..Len(data) : data[j].action = Skip


\* targets i and j, i before j, of distinct inputs and one output path
Collide(i, j) ==
    /\ i < j
    /\ data[i].input_path # data[j].input_path
    /\ data[i].output_path = data[j].output_path

\* how the conversion of target j ended, "" when it has not
ResultOf(j) ==
    IF \E n \in 1..Len(result) : invoked[n] = j
    THEN result[CHOOSE n \in 1..Len(result) : invoked[n] = j]
    ELSE ""

\* C18: when two targets of distinct inputs have one output path, both
\* probes succeeded and the output did not exist when the run was planned,
\* both targets are Create; a batch that runs to its end has started the
\* converter for both on that path; once the first has completed the file
\* holds its output, and once the second has completed the file holds the
\* output of the second, the first one's being lost.
C18_CollisionsRunAndLaterWins ==
    \A i, j \in 1..Len(data) :
        ( /\ Collide(i, j)
          /\ x_idx > j
          /\ probe_log[i] = "duration"
          /\ probe_log[j] = "duration"
          /\ data[i].output_path \notin existing ) =>
            /\ data[i].action = Create
            /\ data[j].action = Create
            /\ exit_cause = "completed" =>
                  Invocations(i) = 1 /\ Invocations(j) = 1
            /\ (ResultOf(i) = "completed" /\ TargetState(j) \in
                    {"Pending", "DirectoryEnsured"}) =>
                  out_files[data[i].output_path] = data[i].input_path
            /\ ResultOf(j) = "completed" =>
                  out_files[data[j].output_path] = data[j].input_path

\* C18 witness: two colliding targets were both converted to the end, and
\* the file holds the output of the second
C18_Witness ==
    \E i, j \in 1..Len(data) :
        /\ Collide(i, j)
        /\ data[i].output_path \notin existing
        /\ ResultOf(i) = "completed"
        /\ ResultOf(j) = "completed"
        /\ out_files[data[j].output_path] = data[j].input_path
        /\ exit_cause = "completed"


\* C19: with force unset, no target whose output existed when the run was
\* planned is anything but Skip, several targets on one such path
\* included; the converter is never started on such a path; and every
\* output file that existed holds what it held before the run.
C19_ExistingOutputsUntouched ==
    ~force =>
        /\ \A i \in 1..Len(data) :
              (i < x_idx /\ data[i].output_path \in existing) =>
                  data[i].action = Skip
        /\ \A n \in 1..Len(invoked) :
              data[invoked[n]].output_path \notin existing
        /\ \A n \in 1..Len(conv_task_list) :
              data[conv_task_list[n]].output_path \notin existing
        /\ \A p \in existing : out_files[p] = p

\* C19 witness: without force a batch ran to its end with two targets on
\* one output that existed, both probed well, and a conversion completed
\* into another output
C19_Witness ==
    /\ ~force
    /\ exit_cause = "completed"
    /\ \E i, j \in 1..Len(data) :
          /\ Collide(i, j)
          /\ data[i].output_path \in existing
          /\ probe_log[i] = "duration"
          /\ probe_log[j] = "duration"
          /\ out_files[data[i].output_path] = data[i].output_path
    /\ \E k \in 1..Len(data) :
          /\ ResultOf(k) = "completed"
          /\ out_files[data[k].output_path] = data[k].input_path

====
